---- MODULE Spec2Model ----
(***************************************************************************)
(* The results pipeline of the trading dashboard front end:                *)
(*   - the request lifecycle controller, hooks/useApi.ts (useApi);         *)
(*   - the strategy-testing page built on it: App.runStrategies, the Run   *)
(*     button of ControlsPanel, and what ResultsPanel, SummaryMetrics,     *)
(*     TradesTable and PerformanceChart render from the payload.           *)
(*                                                                         *)
(* Spec     the controller on its own: execute may be called at any time,  *)
(*          calls overlap freely, each settles when the wrapped operation  *)
(*          resolves or rejects, reset may be called at any time.          *)
(* SpecApp  the strategy-testing page: the controller instance             *)
(*          runStrategiesApi is driven only by the Run button.             *)
(***************************************************************************)
EXTENDS Integers, Sequences, FiniteSets, TLC

\* Number of execute calls followed in one behaviour.
MaxCalls == 3

CallIds == 1..MaxCalls

(***************************************************************************)
(* Values.  JS null in the data slot is Null, in the error slot NoError.   *)
(***************************************************************************)
Null == [tag |-> "null"]
NoError == "<null>"
NoDetail == "<undefined>"

\* The value the wrapped operation resolves with for call c: every call's
\* response is told apart from every other call's.
Response(c) == [tag |-> "resp", id |-> c]

\* 'An unknown error occurred' (useApi.ts:39).
UnknownError == "An unknown error occurred"
\* ERROR_MESSAGES.NETWORK (utils/constants.ts).
ERROR_MESSAGES_NETWORK == "Network error. Please check your connection."

(***************************************************************************)
(* What the wrapped operation can reject with.                             *)
(*   kind     "axios": instanceof AxiosError; "error": another Error;      *)
(*            "other": a thrown value that is no Error                     *)
(*   response whether error.response is set (FALSE: no response reached    *)
(*            the client, a network-level failure)                         *)
(*   detail   error.response.data.detail, NoDetail when absent             *)
(*   message  error.message (axios sets its own text)                      *)
(***************************************************************************)
Thrown ==
  { [kind |-> "axios", response |-> TRUE, detail |-> "Unknown strategy",
     message |-> "Request failed with status code 400"],
    [kind |-> "axios", response |-> TRUE, detail |-> NoDetail,
     message |-> "Request failed with status code 500"],
    [kind |-> "axios", response |-> FALSE, detail |-> NoDetail,
     message |-> "Network Error"],
    [kind |-> "axios", response |-> FALSE, detail |-> NoDetail,
     message |-> "timeout of 30000ms exceeded"],
    [kind |-> "error", response |-> FALSE, detail |-> NoDetail,
     message |-> "Cannot read properties of undefined"],
    [kind |-> "other", response |-> FALSE, detail |-> NoDetail,
     message |-> NoDetail] }

NoThrown == [kind |-> "none", response |-> FALSE, detail |-> NoDetail, message |-> NoDetail]

\* JS truthiness of an optional string: undefined and '' are falsy.
Truthy(s) == s # NoDetail /\ s # ""

\* error.response?.data?.detail
ResponseDetail(e) == IF e.response THEN e.detail ELSE NoDetail

\* A mapping that prefers the raw message to the payload's detail.
ErrorMessagePreferMessage(e) ==
  IF e.kind = "axios"
    THEN IF Truthy(e.message) THEN e.message ELSE ResponseDetail(e)
    ELSE IF e.kind = "error" THEN e.message ELSE UnknownError

\* useApi.execute, catch block: the string the rejection is mapped to.
ErrorMessage(e) ==
  IF e.kind = "axios"
    THEN IF Truthy(ResponseDetail(e)) THEN ResponseDetail(e) ELSE e.message
    ELSE IF e.kind = "error" THEN e.message ELSE UnknownError

(***************************************************************************)
(* State.                                                                  *)
(***************************************************************************)
VARIABLES
  state,          \* useApi's ApiState: [data, loading, error]
  callSt,         \* per execute call: "idle" (not started), "pending", "ok", "err"
  lastRet,        \* what the most recently settled execute call returned
  lastThrown,     \* what the operation of that call rejected with (NoThrown: it resolved)
  lastOp,         \* the most recent operation on the controller
  settleOrder,    \* the calls in the order they settled
  pendingAtStart, \* per call: the calls that were pending when it started
  resetDuring,    \* the calls that were pending when reset() was called
  anyReset        \* whether reset() was ever called

ctlVars == <<state, callSt, lastRet, lastThrown, lastOp, settleOrder,
             pendingAtStart, resetDuring, anyReset>>

InitState == [data |-> Null, loading |-> FALSE, error |-> NoError]

NoRet == [call |-> 0, outcome |-> "none", success |-> FALSE, data |-> Null, error |-> NoError]

Pending == {c \in CallIds : callSt[c] = "pending"}

\* Calls start in the order of their ids: the next call is the first idle one.
NextCall == IF \E c \in CallIds : callSt[c] = "idle"
              THEN CHOOSE c \in CallIds : callSt[c] = "idle" /\ \A d \in CallIds : d < c => callSt[d] # "idle"
              ELSE 0

CtlInit ==
  /\ state = InitState
  /\ callSt = [c \in CallIds |-> "idle"]
  /\ lastRet = NoRet
  /\ lastThrown = NoThrown
  /\ lastOp = "init"
  /\ settleOrder = <<>>
  /\ pendingAtStart = [c \in CallIds |-> {}]
  /\ resetDuring = {}
  /\ anyReset = FALSE

\* An execute that clears the data of the call before when it starts.
ExecuteStartClearData(c) ==
  /\ c = NextCall
  /\ c \in CallIds
  /\ state' = [data |-> Null, loading |-> TRUE, error |-> NoError]
  /\ callSt' = [callSt EXCEPT ![c] = "pending"]
  /\ pendingAtStart' = [pendingAtStart EXCEPT ![c] = Pending]
  /\ lastOp' = "execute"
  /\ UNCHANGED <<lastRet, lastThrown, settleOrder, resetDuring, anyReset>>

\* An execute that refuses to start while another call is pending.
ExecuteStartSingleFlight(c) ==
  /\ Pending = {}
  /\ c = NextCall
  /\ c \in CallIds
  /\ state' = [state EXCEPT !.loading = TRUE, !.error = NoError]
  /\ callSt' = [callSt EXCEPT ![c] = "pending"]
  /\ pendingAtStart' = [pendingAtStart EXCEPT ![c] = Pending]
  /\ lastOp' = "execute"
  /\ UNCHANGED <<lastRet, lastThrown, settleOrder, resetDuring, anyReset>>

\* execute, up to its await: setState(prev => ({...prev, loading: true, error: null})).
ExecuteStart(c) ==
  /\ c = NextCall
  /\ c \in CallIds
  /\ state' = [state EXCEPT !.loading = TRUE, !.error = NoError]
  /\ callSt' = [callSt EXCEPT ![c] = "pending"]
  /\ pendingAtStart' = [pendingAtStart EXCEPT ![c] = Pending]
  /\ lastOp' = "execute"
  /\ UNCHANGED <<lastRet, lastThrown, settleOrder, resetDuring, anyReset>>

\* A resolved call that writes nothing when a later call has been started since
\* (a generation check).
StateAfterResolveLatestOnly(prev, c, result) ==
  IF \A d \in CallIds : d > c => callSt[d] = "idle"
    THEN [prev EXCEPT !.data = result, !.loading = FALSE]
    ELSE prev

\* setState(prev => ({...prev, data: result, loading: false})), by call c.
StateAfterResolve(prev, c, result) == [prev EXCEPT !.data = result, !.loading = FALSE]

\* A settlement that leaves loading as it was.
StateAfterRejectKeepLoading(prev, msg) == [prev EXCEPT !.error = msg]

\* setState(prev => ({...prev, error: errorMessage, loading: false})).
StateAfterReject(prev, msg) == [prev EXCEPT !.error = msg, !.loading = FALSE]

\* What a rejected operation makes of the promise execute returned, when the
\* catch block rethrows (as useApiState.execute does).
RejectedReturnRethrow(c, e) ==
  [call |-> c, outcome |-> "rejected", success |-> FALSE, data |-> Null, error |-> NoError]

\* return { success: false, error: errorMessage }: the promise resolves.
RejectedReturn(c, e) ==
  [call |-> c, outcome |-> "resolved", success |-> FALSE, data |-> Null, error |-> ErrorMessage(e)]

\* return { success: true, data: result }.
ResolvedReturn(c, result) ==
  [call |-> c, outcome |-> "resolved", success |-> TRUE, data |-> result, error |-> NoError]

\* execute after its await, the operation having resolved with result.
ExecuteResolve(c, result) ==
  /\ callSt[c] = "pending"
  /\ state' = StateAfterResolve(state, c, result)
  /\ callSt' = [callSt EXCEPT ![c] = "ok"]
  /\ lastRet' = ResolvedReturn(c, result)
  /\ lastThrown' = NoThrown
  /\ lastOp' = "settle"
  /\ settleOrder' = Append(settleOrder, c)
  /\ UNCHANGED <<pendingAtStart, resetDuring, anyReset>>

\* execute after its await, the operation having rejected with e.
ExecuteReject(c, e) ==
  /\ callSt[c] = "pending"
  /\ state' = StateAfterReject(state, ErrorMessage(e))
  /\ callSt' = [callSt EXCEPT ![c] = "err"]
  /\ lastRet' = RejectedReturn(c, e)
  /\ lastThrown' = e
  /\ lastOp' = "settle"
  /\ settleOrder' = Append(settleOrder, c)
  /\ UNCHANGED <<pendingAtStart, resetDuring, anyReset>>

\* API_CONFIG.RETRY_ATTEMPTS (utils/constants.ts); nothing reads it.
RETRY_ATTEMPTS == 3

\* The HTTP requests the API service has issued for call c: the service
\* function awaits one apiClient request, and the response interceptor hands a
\* failure on (Promise.reject(error)) without issuing the request again.
RequestsIssued(c) == IF callSt[c] = "idle" THEN 0 ELSE 1

\* reset: setState({data: null, loading: false, error: null}); no call is cancelled.
Reset ==
  /\ state' = InitState
  /\ resetDuring' = resetDuring \cup Pending
  /\ anyReset' = TRUE
  /\ lastOp' = "reset"
  /\ UNCHANGED <<callSt, lastRet, lastThrown, settleOrder, pendingAtStart>>

(***************************************************************************)
(* The payload of POST /api/run (types.ts: StrategyResults) and what the   *)
(* results panel renders from it.                                          *)
(*                                                                         *)
(* A strategy entry is a JS object of which any field may be missing: has  *)
(* names the fields that are present.  A missing entry (results.wheel      *)
(* undefined) is Absent.  A string of the payload that the code takes      *)
(* apart (a trade's action) is the sequence of its pieces.                 *)
(***************************************************************************)
Absent == [tag |-> "undefined"]

\* A JS number as the code computes with it: an exact quotient n/d (d > 0), NaN
\* or an infinity; Undefined is the value of a property that is not there.
Num(n) == [t |-> "num", n |-> n, d |-> 1]
NaN == [t |-> "NaN"]
Infinity(sign) == [t |-> "Infinity", sign |-> sign]
Undefined == [t |-> "undefined"]

IsNum(a) == a.t = "num"
Sign(n) == IF n > 0 THEN 1 ELSE IF n < 0 THEN -1 ELSE 0

\* a - b, a / b and a * b of JS on these values (undefined converts to NaN).
JsSub(a, b) ==
  IF IsNum(a) /\ IsNum(b) THEN [t |-> "num", n |-> a.n * b.d - b.n * a.d, d |-> a.d * b.d]
  ELSE NaN
JsDiv(a, b) ==
  IF ~(IsNum(a) /\ IsNum(b)) THEN NaN
  ELSE IF b.n = 0 THEN (IF a.n = 0 THEN NaN ELSE Infinity(Sign(a.n)))
  ELSE [t |-> "num", n |-> a.n * b.d * Sign(b.n), d |-> a.d * b.n * Sign(b.n)]
JsMul(a, b) ==
  IF IsNum(a) /\ IsNum(b) THEN [t |-> "num", n |-> a.n * b.n, d |-> a.d * b.d]
  ELSE NaN
\* a > 0 of JS: false for NaN and undefined.
JsPositive(a) == IsNum(a) /\ a.n > 0
\* Two JS numbers denote the same finite value.
NumEq(a, b) == IsNum(a) /\ IsNum(b) /\ a.n * b.d = b.n * a.d

\* summary.<key>: a summary is a JS object, its keys are the fields of the record.
Field(summary, key) == IF key \in DOMAIN summary THEN Num(summary[key]) ELSE Undefined

StrategyIds == {"wheel", "rotator"}

NoSummary == [total_trades |-> 0, initial_capital |-> 0, final_capital |-> 0]

Trade(sym, act, ts) == [symbol |-> sym, action |-> act, timestamp |-> ts]

OkEntry(trades, summary) ==
  [has |-> {"trades", "summary"}, error |-> NoDetail, trades |-> trades, summary |-> summary]
ErrorEntry(msg) ==
  [has |-> {"error"}, error |-> msg, trades |-> <<>>, summary |-> NoSummary]
ErrorEntryWithData(msg, trades, summary) ==
  [has |-> {"error", "trades", "summary"}, error |-> msg, trades |-> trades, summary |-> summary]

\* A value of a summary key beyond the declared ones, with its typeof.
Number(v) == [type |-> "number", v |-> v]
String(v) == [type |-> "string", v |-> v]

\* The wheel's summary: the five declared keys and four more.  The rotator's:
\* four declared keys (no total_return) and one more.
WheelSummary ==
  [total_trades |-> 4, initial_capital |-> 50000, final_capital |-> 50016,
   total_return |-> 3, execution_time |-> 2,
   win_rate |-> Number(65), Sharpe_Ratio |-> Number(2), max_drawdown |-> Number(-12),
   risk_level |-> String("high")]
RotatorSummary ==
  [total_trades |-> 11, initial_capital |-> 50000, final_capital |-> 49624,
   execution_time |-> 2, win_rate |-> Number(40)]

\* The characters of the summary keys, as character codes.
KeyChars ==
  [total_trades |-> <<116, 111, 116, 97, 108, 95, 116, 114, 97, 100, 101, 115>>,
   initial_capital |-> <<105, 110, 105, 116, 105, 97, 108, 95, 99, 97, 112, 105, 116, 97, 108>>,
   final_capital |-> <<102, 105, 110, 97, 108, 95, 99, 97, 112, 105, 116, 97, 108>>,
   total_return |-> <<116, 111, 116, 97, 108, 95, 114, 101, 116, 117, 114, 110>>,
   execution_time |-> <<101, 120, 101, 99, 117, 116, 105, 111, 110, 95, 116, 105, 109, 101>>,
   win_rate |-> <<119, 105, 110, 95, 114, 97, 116, 101>>,
   Sharpe_Ratio |-> <<83, 104, 97, 114, 112, 101, 95, 82, 97, 116, 105, 111>>,
   max_drawdown |-> <<109, 97, 120, 95, 100, 114, 97, 119, 100, 111, 119, 110>>,
   risk_level |-> <<114, 105, 115, 107, 95, 108, 101, 118, 101, 108>>]

StrRate == <<114, 97, 116, 101>>
StrPercentage == <<112, 101, 114, 99, 101, 110, 116, 97, 103, 101>>
StrRatio == <<114, 97, 116, 105, 111>>

\* text.includes(sub)
Includes(text, sub) ==
  \E i \in 1..(Len(text) - Len(sub) + 1) : SubSeq(text, i, i + Len(sub) - 1) = sub

\* The keys SummaryMetrics shows in its cards and skips afterwards.
MainMetrics == {"total_trades", "initial_capital", "final_capital", "total_return", "execution_time"}

WheelTrades ==
  << Trade("IWM", <<"SELL", "_", "PUT">>, 1), Trade("IWM", <<"BUY", "_", "SHARES">>, 2),
     Trade("SPY", <<"BUY", "_", "SHARES">>, 3) >>
RotatorTrades ==
  << Trade("BTC", <<"BUY", "_", "CRYPTO">>, 1), Trade("BTC", <<"SELL", "_", "CRYPTO">>, 2),
     Trade("ETH", <<"BUY", "_", "CRYPTO">>, 3) >>

\* A summary of which a capital is missing, and the summary of a strategy that
\* was given no capital.
WheelSummaryNoFinal == [total_trades |-> 4, initial_capital |-> 50000]
ZeroCapitalSummary == [total_trades |-> 0, initial_capital |-> 0, final_capital |-> 0]

WheelEntries ==
  { Absent, OkEntry(<<>>, WheelSummary), OkEntry(WheelTrades, WheelSummary),
    ErrorEntry("timeout"), ErrorEntryWithData("timeout", WheelTrades, WheelSummary),
    OkEntry(WheelTrades, WheelSummaryNoFinal) }
RotatorEntries ==
  { Absent, OkEntry(RotatorTrades, RotatorSummary),
    ErrorEntry("timeout"), ErrorEntryWithData("timeout", RotatorTrades, RotatorSummary),
    OkEntry(<<>>, ZeroCapitalSummary) }

\* RunRequest.strategies: the selected strategies in the order of selection.
Requests ==
  { <<"wheel">>, <<"rotator">>, <<"wheel", "rotator">>, <<"rotator", "wheel">> }

\* The strategy service's rollup of a run (the service is not part of the
\* front end; its rollup is the one the specification describes): a strategy
\* counts when it was requested and its entry has no error and a summary with
\* both capitals.
Counted(req, entries, s) ==
  /\ \E i \in 1..Len(req) : req[i] = s
  /\ entries[s] # Absent
  /\ ~Truthy(entries[s].error)
  /\ {"trades", "summary"} \subseteq entries[s].has
  /\ {"initial_capital", "final_capital"} \subseteq DOMAIN entries[s].summary

ServiceTotalTrades(req, entries) ==
  (IF Counted(req, entries, "wheel") THEN entries.wheel.summary.total_trades ELSE 0)
  + (IF Counted(req, entries, "rotator") THEN entries.rotator.summary.total_trades ELSE 0)

ServiceStrategiesRun(req, entries) ==
  Cardinality({ s \in StrategyIds : Counted(req, entries, s) })

ServiceCashFlow(req, entries) ==
  (IF Counted(req, entries, "wheel")
     THEN entries.wheel.summary.final_capital - entries.wheel.summary.initial_capital ELSE 0)
  + (IF Counted(req, entries, "rotator")
       THEN entries.rotator.summary.final_capital - entries.rotator.summary.initial_capital ELSE 0)

\* StrategyResults: the body of a response to POST /api/run for request req.
Payload(req, w, r) ==
  LET entries == [wheel |-> w, rotator |-> r]
  IN [tag |-> "results",
      results |-> entries,
      total_trades |-> ServiceTotalTrades(req, entries),
      combined_summary |->
        [total_strategies_run |-> ServiceStrategiesRun(req, entries),
         combined_cash_flow |-> ServiceCashFlow(req, entries),
         strategies_requested |-> req]]

Payloads ==
  { Payload(req, w, r) : req \in Requests, w \in WheelEntries, r \in RotatorEntries }

\* A render that threw.
Threw == [kind |-> "threw"]
\* A component that is not rendered.
NotRendered == [kind |-> "none"]

\* summary.initial_capital > 0 ? ((final - initial) / initial) * 100 : 0
ReturnPercentage(summary) ==
  IF JsPositive(Field(summary, "initial_capital"))
    THEN JsMul(JsDiv(JsSub(Field(summary, "final_capital"), Field(summary, "initial_capital")),
                     Field(summary, "initial_capital")),
               Num(100))
    ELSE Num(0)

\* summary.final_capital - summary.initial_capital
TotalPnL(summary) == JsSub(Field(summary, "final_capital"), Field(summary, "initial_capital"))

\* One box of the Additional Metrics section: a number is shown by
\* formatPercentage when the key includes 'rate', 'percentage' or 'ratio', by
\* toLocaleString otherwise; anything else by String(value).
AdditionalMetric(key, value) ==
  [key |-> key,
   class |-> IF value.type = "number"
               THEN IF Includes(KeyChars[key], StrRate) \/ Includes(KeyChars[key], StrPercentage)
                       \/ Includes(KeyChars[key], StrRatio)
                      THEN "percentage" ELSE "number"
               ELSE "string",
   value |-> value.v]

\* The Additional Metrics section: there when the summary has more than five
\* keys, with a box for every key that is not one of the main metrics.
AdditionalMetrics(summary) ==
  IF Cardinality(DOMAIN summary) > 5
    THEN [shown |-> TRUE,
          boxes |-> { AdditionalMetric(key, summary[key]) : key \in (DOMAIN summary) \ MainMetrics }]
    ELSE [shown |-> FALSE, boxes |-> {}]

\* SummaryMetrics: the error card when result.error is truthy, else the metric
\* cards read from result.summary.  A TypeError when there is no summary, and
\* when formatCurrency is handed a capital that is not there
\* (value.toLocaleString on undefined).
SummaryMetrics(result) ==
  IF Truthy(result.error)
    THEN [kind |-> "error", text |-> result.error]
    ELSE IF "summary" \notin result.has
      THEN Threw
      ELSE IF ~IsNum(Field(result.summary, "initial_capital"))
              \/ ~IsNum(Field(result.summary, "final_capital"))
        THEN Threw
        ELSE [kind |-> "metrics",
              initial_capital |-> Field(result.summary, "initial_capital"),
              final_capital |-> Field(result.summary, "final_capital"),
              totalPnL |-> TotalPnL(result.summary),
              returnPercentage |-> ReturnPercentage(result.summary),
              total_trades |-> result.summary.total_trades,
              additional |-> AdditionalMetrics(result.summary)]

\* TradesTable without its empty state: an empty array gives a table without rows.
TradesTableNoEmptyState(result) ==
  IF "trades" \notin result.has
    THEN Threw
    ELSE [kind |-> "rows", trades |-> result.trades]

\* TradesTable on the trades prop: [...trades] throws on undefined; an empty
\* array gives the "No trades executed" card, anything else the table.
TradesTable(result) ==
  IF "trades" \notin result.has
    THEN Threw
    ELSE IF Len(result.trades) = 0
      THEN [kind |-> "empty"]
      ELSE [kind |-> "rows", trades |-> result.trades]

\* trade.action.replace('_', ' '): the first separator becomes a space.
RECURSIVE ReplaceFirst(_)
ReplaceFirst(s) ==
  IF s = <<>> THEN <<>>
  ELSE IF Head(s) = "_" THEN <<" ">> \o Tail(s)
  ELSE <<Head(s)>> \o ReplaceFirst(Tail(s))

\* A count that puts a new action in front of the others.
CountActionPrepend(data, action) ==
  IF \E i \in 1..Len(data) : data[i].action = action
    THEN [i \in 1..Len(data) |->
            IF data[i].action = action THEN [data[i] EXCEPT !.count = @ + 1] ELSE data[i]]
    ELSE << [action |-> action, count |-> 1] >> \o data

\* actionData[action] = (actionData[action] || 0) + 1, on an object whose keys
\* keep their insertion order: a sequence of [action, count].
RECURSIVE CountAction(_, _)
CountAction(data, action) ==
  IF data = <<>> THEN << [action |-> action, count |-> 1] >>
  ELSE IF Head(data).action = action
    THEN << [Head(data) EXCEPT !.count = @ + 1] >> \o Tail(data)
    ELSE << Head(data) >> \o CountAction(Tail(data), action)

RECURSIVE CountTrades(_, _)
CountTrades(data, trades) ==
  IF trades = <<>> THEN data
  ELSE CountTrades(CountAction(data, ReplaceFirst(Head(trades).action)), Tail(trades))

\* result && !result.error
Usable(result) == result # Absent /\ ~Truthy(result.error)

\* wheelReturnPct = (wheelReturn / summary.initial_capital) * 100
ReturnPct(summary) ==
  JsMul(JsDiv(JsSub(Field(summary, "final_capital"), Field(summary, "initial_capital")),
              Field(summary, "initial_capital")),
        Num(100))

\* One row of comparisonData.
ComparisonRow(label, result) ==
  [strategy |-> label,
   returnAmount |-> JsSub(Field(result.summary, "final_capital"), Field(result.summary, "initial_capital")),
   returnPct |-> ReturnPct(result.summary),
   trades |-> result.summary.total_trades,
   initial_capital |-> Field(result.summary, "initial_capital"),
   final_capital |-> Field(result.summary, "final_capital")]

\* A row of zeros for an entry with an error.
ZeroRow(label) ==
  [strategy |-> label, returnAmount |-> Num(0), returnPct |-> Num(0), trades |-> 0,
   initial_capital |-> Num(0), final_capital |-> Num(0)]

\* comparisonData with a row for every entry: zeros for an entry with an error.
ComparisonDataZeroFilled(wheel, rotator) ==
  (IF wheel = Absent THEN <<>>
   ELSE IF Usable(wheel) THEN << ComparisonRow("Options Wheel", wheel) >>
   ELSE << ZeroRow("Options Wheel") >>)
  \o (IF rotator = Absent THEN <<>>
      ELSE IF Usable(rotator) THEN << ComparisonRow("Crypto Rotator", rotator) >>
      ELSE << ZeroRow("Crypto Rotator") >>)

ComparisonData(wheel, rotator) ==
  (IF Usable(wheel) THEN << ComparisonRow("Options Wheel", wheel) >> ELSE <<>>)
  \o (IF Usable(rotator) THEN << ComparisonRow("Crypto Rotator", rotator) >> ELSE <<>>)

\* The distribution over the trades of every entry that has trades, with or
\* without an error.
ActionChartDataAllEntries(wheel, rotator) ==
  CountTrades(CountTrades(<<>>, IF wheel # Absent THEN wheel.trades ELSE <<>>),
              IF rotator # Absent THEN rotator.trades ELSE <<>>)

ActionChartData(wheel, rotator) ==
  CountTrades(CountTrades(<<>>, IF Usable(wheel) THEN wheel.trades ELSE <<>>),
              IF Usable(rotator) THEN rotator.trades ELSE <<>>)

\* PerformanceChart: reads summary and trades of every entry without error.
PerformanceChart(wheel, rotator) ==
  IF \E r \in {wheel, rotator} : Usable(r) /\ r.has # {"trades", "summary"} /\ r.has # {"error", "trades", "summary"}
    THEN Threw
    ELSE [kind |-> IF ComparisonData(wheel, rotator) = <<>> THEN "nodata" ELSE "charts",
          comparisonData |-> ComparisonData(wheel, rotator),
          actionChartData |-> ActionChartData(wheel, rotator)]

\* The Execution Summary card with Total Trades counted from the trade rows of
\* the entries instead of read from the payload.
ExecutionSummaryCountRows(results) ==
  [total_trades |->
     (IF results.results.wheel # Absent THEN Len(results.results.wheel.trades) ELSE 0)
     + (IF results.results.rotator # Absent THEN Len(results.results.rotator.trades) ELSE 0),
   strategies_run |-> results.combined_summary.total_strategies_run,
   cash_flow |-> results.combined_summary.combined_cash_flow,
   badges |-> [i \in 1..Len(results.combined_summary.strategies_requested) |->
                 IF results.combined_summary.strategies_requested[i] = "wheel"
                   THEN "Options Wheel" ELSE "Crypto Rotator"]]

\* The Execution Summary card: the payload's totals as they came, and a badge
\* for every requested strategy (strategy === 'wheel' ? 'Options Wheel' :
\* 'Crypto Rotator').
ExecutionSummary(results) ==
  [total_trades |-> results.total_trades,
   strategies_run |-> results.combined_summary.total_strategies_run,
   cash_flow |-> results.combined_summary.combined_cash_flow,
   badges |-> [i \in 1..Len(results.combined_summary.strategies_requested) |->
                 IF results.combined_summary.strategies_requested[i] = "wheel"
                   THEN "Options Wheel" ELSE "Crypto Rotator"]]

\* {wheel && (<SummaryMetrics result={wheel}/> <TradesTable trades={wheel.trades}/>)}
StrategySection(result) ==
  IF result = Absent
    THEN [summary |-> NotRendered, table |-> NotRendered]
    ELSE [summary |-> SummaryMetrics(result), table |-> TradesTable(result)]

\* ResultsPanel.  An exception thrown while rendering a child leaves nothing of
\* the panel on the screen.
ResultsPanel(results, isLoading) ==
  IF isLoading THEN [kind |-> "loading"]
  ELSE IF results = Null THEN [kind |-> "ready"]
  ELSE LET wheel == results.results.wheel
           rotator == results.results.rotator
           w == StrategySection(wheel)
           r == StrategySection(rotator)
           chart == PerformanceChart(wheel, rotator)
       IN IF wheel = Absent /\ rotator = Absent THEN [kind |-> "noresults"]
          ELSE IF Threw \in {w.summary, w.table, r.summary, r.table, chart}
            THEN [kind |-> "crash"]
            ELSE [kind |-> "results", execution |-> ExecutionSummary(results),
                  wheel |-> w, rotator |-> r, chart |-> chart]

(***************************************************************************)
(* The strategy-testing page.                                              *)
(***************************************************************************)
VARIABLES
  results,            \* App: results
  status,             \* App: status ('Completed at <time>' is "Completed")
  selectedStrategies, \* ControlsPanel: selectedStrategies, in order
  requested,          \* the strategies argument of the last run
  mounted             \* FALSE once a render has thrown: the page is gone

appVars == <<results, status, selectedStrategies, requested, mounted>>

AppInit ==
  /\ results = Null
  /\ status = "Ready"
  /\ selectedStrategies = <<"wheel", "rotator">>
  /\ requested = <<>>
  /\ mounted = TRUE

\* What the results panel shows.
View == IF mounted THEN ResultsPanel(results, state.loading) ELSE [kind |-> "crash"]

Remove(seq, x) == SelectSeq(seq, LAMBDA y : y # x)

\* handleStrategyToggle.
ToggleStrategy(s) ==
  /\ mounted
  /\ selectedStrategies' =
       IF \E i \in 1..Len(selectedStrategies) : selectedStrategies[i] = s
         THEN Remove(selectedStrategies, s)
         ELSE Append(selectedStrategies, s)
  /\ UNCHANGED <<ctlVars, results, status, requested, mounted>>

\* A Run button that stays enabled while a run is loading.
RunEnabledIgnoreLoading == mounted /\ Len(selectedStrategies) # 0

\* The Run button: disabled={isLoading || selectedStrategies.length === 0}.
RunEnabled == mounted /\ ~state.loading /\ Len(selectedStrategies) # 0

\* runStrategies up to its await, with the results of the run before left in place.
RunStartKeepResults(c) ==
  /\ RunEnabled
  /\ status' = "Running strategies..."
  /\ results' = results
  /\ requested' = selectedStrategies
  /\ ExecuteStart(c)
  /\ UNCHANGED <<selectedStrategies, mounted>>

\* A click on Run: handleRun, then runStrategies up to its await.
RunStart(c) ==
  /\ RunEnabled
  /\ status' = "Running strategies..."
  /\ results' = Null
  /\ requested' = selectedStrategies
  /\ ExecuteStart(c)
  /\ UNCHANGED <<selectedStrategies, mounted>>

\* runStrategies after its await, the request having resolved with payload p:
\* result.success && result.data.
RunResolve(c, p) ==
  /\ mounted
  /\ ExecuteResolve(c, p)
  /\ IF p # Null
       THEN results' = p /\ status' = "Completed"
       ELSE results' = results /\ status' = "Failed"
  /\ mounted' = (ResultsPanel(results', FALSE).kind # "crash")
  /\ UNCHANGED <<selectedStrategies, requested>>

\* runStrategies after its await, the request having failed.
RunReject(c, e) ==
  /\ mounted
  /\ ExecuteReject(c, e)
  /\ status' = "Failed"
  /\ UNCHANGED <<results, selectedStrategies, requested, mounted>>

(***************************************************************************)
(* The trade ledger: one TradesTable on its trades prop.                   *)
(*                                                                         *)
(* A string that the sort compares is the sequence of its character codes. *)
(* A timestamp is an ISO-8601 text of one day, <<hour, offset>> for        *)
(* "...T<hour>:00:00+<offset>:00"; the instant it denotes is hour - offset *)
(* (in hours).                                                             *)
(***************************************************************************)
MaxTrades == 3

SortFields == {"week", "symbol", "action", "quantity", "price", "cash_flow", "timestamp"}
\* The fields that have a header to click on.
HeaderFields == SortFields \ {"timestamp"}

Str2 == <<50>>
Str10 == <<49, 48>>
StrWeek1 == <<87, 101, 101, 107, 49>>
StrIWM == <<73, 87, 77>>
StrBTC == <<66, 84, 67>>
StrSELL_PUT == <<83, 69, 76, 76, 95, 80, 85, 84>>
StrBUY_CRYPTO == <<66, 85, 89, 95, 67, 82, 89, 80, 84, 79>>

TradeRecord(week, symbol, action, quantity, price, cash_flow, timestamp, notes) ==
  [week |-> week, symbol |-> symbol, action |-> action, quantity |-> quantity,
   price |-> price, cash_flow |-> cash_flow, timestamp |-> timestamp, notes |-> notes]

TradePool ==
  { TradeRecord(Str2, StrIWM, StrSELL_PUT, 1, 5, 5, <<13, 2>>, "a"),
    TradeRecord(Str10, StrIWM, StrSELL_PUT, 1, 5, -3, <<12, 0>>, "b"),
    TradeRecord(Str2, StrBTC, StrBUY_CRYPTO, 2, 3, -3, <<11, 0>>, "c"),
    TradeRecord(StrWeek1, StrBTC, StrBUY_CRYPTO, 3, 2, -6, <<10, 0>>, "d") }

\* The trades props a ledger is mounted with.
TradeLists == UNION { [1..n -> TradePool] : n \in 0..MaxTrades }

\* new Date(timestamp).getTime()
GetTime(timestamp) == timestamp[1] - timestamp[2]

\* a.localeCompare(b) on strings of digits, capitals and small letters of one
\* case pattern: the order of the first differing character, a prefix first.
RECURSIVE LocaleCompare(_, _)
LocaleCompare(a, b) ==
  IF a = <<>> /\ b = <<>> THEN 0
  ELSE IF a = <<>> THEN -1
  ELSE IF b = <<>> THEN 1
  ELSE IF Head(a) < Head(b) THEN -1
  ELSE IF Head(a) > Head(b) THEN 1
  ELSE LocaleCompare(Tail(a), Tail(b))

\* The switch on sortField: the value the comparator compares, with its typeof.
SortValue(trade, field) ==
  IF field \in {"week", "symbol", "action"} THEN [type |-> "string", v |-> trade[field]]
  ELSE IF field \in {"quantity", "price", "cash_flow"} THEN [type |-> "number", v |-> trade[field]]
  ELSE [type |-> "number", v |-> GetTime(trade.timestamp)]

\* The comparator handed to sort.
Compare(a, b, field, direction) ==
  LET aValue == SortValue(a, field)
      bValue == SortValue(b, field)
  IN IF aValue.type = "string" /\ bValue.type = "string"
       THEN (IF direction = "asc" THEN LocaleCompare(aValue.v, bValue.v)
                                  ELSE LocaleCompare(bValue.v, aValue.v))
       ELSE (IF direction = "asc" THEN aValue.v - bValue.v ELSE bValue.v - aValue.v)

\* An insertion that puts x before the elements it compares equal to.
RECURSIVE InsertBeforeEqual(_, _, _, _)
InsertBeforeEqual(x, sorted, field, direction) ==
  IF sorted = <<>> THEN <<x>>
  ELSE IF Compare(x, Head(sorted), field, direction) <= 0 THEN <<x>> \o sorted
  ELSE <<Head(sorted)>> \o InsertBeforeEqual(x, Tail(sorted), field, direction)

\* Array.prototype.sort is stable: an element goes after the elements it does
\* not compare less than.
RECURSIVE InsertSorted(_, _, _, _)
InsertSorted(x, sorted, field, direction) ==
  IF sorted = <<>> THEN <<x>>
  ELSE IF Compare(x, Head(sorted), field, direction) < 0 THEN <<x>> \o sorted
  ELSE <<Head(sorted)>> \o InsertSorted(x, Tail(sorted), field, direction)

RECURSIVE SortFrom(_, _, _, _)
SortFrom(rest, acc, field, direction) ==
  IF rest = <<>> THEN acc
  ELSE SortFrom(Tail(rest), InsertSorted(Head(rest), acc, field, direction), field, direction)

\* trades.sort(...): the array of the prop itself is sorted.
SortInPlace(list, field, direction) ==
  [input |-> SortFrom(list, <<>>, field, direction),
   output |-> SortFrom(list, <<>>, field, direction)]

\* sortedTrades = [...trades].sort(...): the array of the prop afterwards, and
\* the sorted copy.
SortedTrades(list, field, direction) ==
  [input |-> list, output |-> SortFrom(list, <<>>, field, direction)]

VARIABLES
  tradesProp,     \* TradesTable: the array of the trades prop
  sortField,      \* TradesTable: sortField
  sortDirection,  \* TradesTable: sortDirection
  isCollapsed,    \* TradesTable: isCollapsed
  sortedTrades,   \* TradesTable: sortedTrades of the last render
  propAtMount,    \* the trades prop as it was handed over
  lastEvent,      \* the last click: a header field, "collapse", or "none"
  before,         \* what was on the screen before the last click
  prevEvent,      \* the click before the last
  beforePrev      \* what was on the screen before that one

ledgerVars ==
  <<tradesProp, sortField, sortDirection, isCollapsed, sortedTrades,
    propAtMount, lastEvent, before, prevEvent, beforePrev>>

vars == <<ctlVars, appVars, ledgerVars>>

\* The sort specification, the collapse flag and the rows of the last render.
Screen ==
  [field |-> sortField, direction |-> sortDirection, collapsed |-> isCollapsed,
   rows |-> sortedTrades]

NoScreen == [field |-> "none", direction |-> "none", collapsed |-> FALSE, rows |-> <<>>]

\* The first render of a ledger mounted with list: useState('timestamp'),
\* useState('desc'), useState(false).
Mount(list) ==
  /\ sortField = "timestamp"
  /\ sortDirection = "desc"
  /\ isCollapsed = FALSE
  /\ tradesProp = SortedTrades(list, "timestamp", "desc").input
  /\ sortedTrades = SortedTrades(list, "timestamp", "desc").output
  /\ propAtMount = list
  /\ lastEvent = "none"
  /\ prevEvent = "none"
  /\ before = NoScreen
  /\ beforePrev = NoScreen

\* The render that follows a state change.
Render ==
  /\ tradesProp' = SortedTrades(tradesProp, sortField', sortDirection').input
  /\ sortedTrades' = SortedTrades(tradesProp, sortField', sortDirection').output

Remember(event) ==
  /\ lastEvent' = event
  /\ before' = Screen
  /\ prevEvent' = lastEvent
  /\ beforePrev' = before
  /\ UNCHANGED propAtMount

\* The table has its headers and its collapse button when there is a trade.
HeadersShown == tradesProp # <<>> /\ ~isCollapsed
ButtonShown == tradesProp # <<>>

\* handleSort where a new field keeps the direction it finds.
HandleSortKeepDirection(field) ==
  /\ HeadersShown
  /\ IF sortField = field
       THEN /\ sortDirection' = (IF sortDirection = "asc" THEN "desc" ELSE "asc")
            /\ sortField' = sortField
       ELSE /\ sortField' = field
            /\ sortDirection' = sortDirection
  /\ UNCHANGED isCollapsed
  /\ Render
  /\ Remember(field)

\* A click on a column header: handleSort(field), and the render after it.
HandleSort(field) ==
  /\ HeadersShown
  /\ IF sortField = field
       THEN /\ sortDirection' = (IF sortDirection = "asc" THEN "desc" ELSE "asc")
            /\ sortField' = sortField
       ELSE /\ sortField' = field
            /\ sortDirection' = "asc"
  /\ UNCHANGED isCollapsed
  /\ Render
  /\ Remember(field)

\* A collapse that mounts the table anew on expanding: the sort starts over.
ToggleCollapseRemount ==
  /\ ButtonShown
  /\ isCollapsed' = ~isCollapsed
  /\ sortField' = (IF isCollapsed THEN "timestamp" ELSE sortField)
  /\ sortDirection' = (IF isCollapsed THEN "desc" ELSE sortDirection)
  /\ Render
  /\ Remember("collapse")

\* A click on the collapse button: setIsCollapsed(!isCollapsed), and the
\* render after it.
ToggleCollapse ==
  /\ ButtonShown
  /\ isCollapsed' = ~isCollapsed
  /\ UNCHANGED <<sortField, sortDirection>>
  /\ Render
  /\ Remember("collapse")

\* The rows of the table body: none while collapsed.
RenderedRows == IF isCollapsed THEN <<>> ELSE sortedTrades

(***************************************************************************)
(* Specifications.                                                         *)
(***************************************************************************)
Execute == (\E c \in CallIds : ExecuteStart(c)) /\ UNCHANGED <<appVars, ledgerVars>>
Resolve == (\E c \in CallIds : ExecuteResolve(c, Response(c))) /\ UNCHANGED <<appVars, ledgerVars>>
Reject == (\E c \in CallIds, e \in Thrown : ExecuteReject(c, e)) /\ UNCHANGED <<appVars, ledgerVars>>
ResetCall == Reset /\ UNCHANGED <<appVars, ledgerVars>>

\* The page before a run: no ledger has a trade to show.
Init == CtlInit /\ AppInit /\ Mount(<<>>)

Next == Execute \/ Resolve \/ Reject \/ ResetCall

Spec == Init /\ [][Next]_vars

Toggle == (\E s \in StrategyIds : ToggleStrategy(s)) /\ UNCHANGED ledgerVars
Run == (\E c \in CallIds : RunStart(c)) /\ UNCHANGED ledgerVars
\* The service answers the request that was sent.
RunOk ==
  /\ \E c \in CallIds, w \in WheelEntries, r \in RotatorEntries :
       RunResolve(c, Payload(requested, w, r))
  /\ UNCHANGED ledgerVars
\* The request resolves with an empty body: response.data is null.
RunEmpty == (\E c \in CallIds : RunResolve(c, Null)) /\ UNCHANGED ledgerVars
RunFail == (\E c \in CallIds, e \in Thrown : RunReject(c, e)) /\ UNCHANGED ledgerVars

NextApp == Toggle \/ Run \/ RunOk \/ RunEmpty \/ RunFail

SpecApp == Init /\ [][NextApp]_vars

\* A ledger mounted with a list of trades, and the clicks on it.
InitLedger == CtlInit /\ AppInit /\ \E list \in TradeLists : Mount(list)

Sort == (\E field \in HeaderFields : HandleSort(field)) /\ UNCHANGED <<ctlVars, appVars>>
Collapse == ToggleCollapse /\ UNCHANGED <<ctlVars, appVars>>

NextLedger == Sort \/ Collapse

SpecLedger == InitLedger /\ [][NextLedger]_vars

(***************************************************************************)
(* The controller's claims (Spec).                                         *)
(***************************************************************************)
LastSettled == IF settleOrder = <<>> THEN 0 ELSE settleOrder[Len(settleOrder)]

Settled(c) == callSt[c] \in {"ok", "err"}

\* The place of a settled call in the order of settlements.
Pos(c) == CHOOSE i \in 1..Len(settleOrder) : settleOrder[i] = c

\* Call a was started, call b was started while a was pending and no call after
\* it, b settled, then a settled, both successfully; nothing happened since.
RaceSettledInReverse(a, b) ==
  /\ a < b
  /\ a \in pendingAtStart[b]
  /\ \A d \in CallIds : d > b => callSt[d] = "idle"
  /\ callSt[a] = "ok" /\ callSt[b] = "ok"
  /\ Pos(a) = Pos(b) + 1
  /\ LastSettled = a
  /\ lastOp = "settle"
  /\ ~anyReset

C2_LateResultDiscardedAfterReset ==
  \A c \in resetDuring :
    (/\ lastOp = "settle"
     /\ lastRet.call = c
     /\ \A d \in CallIds : d > c => callSt[d] = "idle")
    => state = InitState

\* C3 as stated: as long as reset() was never called, loading is true exactly
\* when some execute call has started and not yet settled.
C3_LoadingIffPending ==
  ~anyReset => (state.loading <=> Pending # {})

NeverOverlapped == \A c \in CallIds : pendingAtStart[c] = {}

\* C3 amended: loading is true exactly from the start of an execute call to the
\* next settlement of any call (or reset).  So loading is false once no call is
\* pending, and when calls never overlap (and reset is not called) loading is
\* true exactly while the call is pending; the first settlement among
\* overlapping calls clears loading although another call is still pending.
C3_LoadingFromStartToNextSettlement ==
  /\ state.loading <=> lastOp = "execute"
  /\ state.loading => Pending # {}
  /\ (~anyReset /\ NeverOverlapped) => (state.loading <=> Pending # {})

C3_Witness ==
  /\ ~anyReset
  /\ \E a, b \in CallIds : a \in pendingAtStart[b] /\ callSt[a] = "pending" /\ callSt[b] = "ok"
  /\ ~state.loading

\* Two calls overlapped, both have settled, and nothing happened since the
\* later settlement.
OverlappedBothSettled(a, b) ==
  /\ a \in pendingAtStart[b]
  /\ Settled(a) /\ Settled(b)
  /\ LastSettled \in {a, b}
  /\ lastOp = "settle"

\* C4: a second execute can be started while the first is pending; when two
\* overlapping calls have both settled, the one that settled last returned
\* its own result and data (on success) or error (on failure) is what that
\* call wrote.
C4_OverlapLastSettledWrites ==
  /\ (Pending # {} /\ NextCall # 0) => ENABLED Execute
  /\ \A c \in Pending : ENABLED (ExecuteResolve(c, Response(c)) /\ UNCHANGED appVars)
  /\ \A a, b \in CallIds :
       OverlappedBothSettled(a, b) =>
         /\ lastRet.call = LastSettled
         /\ callSt[LastSettled] = "ok" =>
              /\ lastRet.success /\ lastRet.data = Response(LastSettled)
              /\ state.data = Response(LastSettled)
         /\ callSt[LastSettled] = "err" =>
              /\ ~lastRet.success /\ lastRet.error # NoError
              /\ state.error = lastRet.error

C4_Witness ==
  \E a, b \in CallIds :
    /\ a < b /\ OverlappedBothSettled(a, b)
    /\ LastSettled = a /\ callSt[a] = "ok" /\ callSt[b] = "err"

HasDetail(e) == e.kind = "axios" /\ e.response /\ e.detail # NoDetail
HasMessage(e) == e.kind \in {"axios", "error"}

NetworkFailure(e) == e.kind = "axios" /\ ~e.response

\* C6 as stated: right after a call has failed at network level (no response),
\* the error string returned and stored is the fixed network-error message,
\* not the transport's own text.
C6_NetworkFailureFixedMessage ==
  (lastOp = "settle" /\ NetworkFailure(lastThrown)) =>
    /\ lastRet.error = ERROR_MESSAGES_NETWORK
    /\ state.error = ERROR_MESSAGES_NETWORK

\* C7: the promise of every settled execute call resolved (it did not reject);
\* it carries success and the operation's data when the operation resolved,
\* failure and an error string when it rejected, and right after the settlement
\* state.data, respectively state.error, is the returned one.
C7_ExecuteNeverThrows ==
  lastOp = "settle" =>
    /\ lastRet.call = LastSettled
    /\ lastRet.outcome = "resolved"
    /\ lastThrown = NoThrown =>
         /\ lastRet.success
         /\ lastRet.data = Response(lastRet.call)
         /\ state.data = lastRet.data
    /\ lastThrown # NoThrown =>
         /\ ~lastRet.success
         /\ lastRet.error \notin {NoError, NoDetail}
         /\ state.error = lastRet.error

C7_Witness ==
  /\ lastOp = "settle"
  /\ lastThrown.kind = "other"
  /\ lastRet.outcome = "resolved"
  /\ \E c \in CallIds : callSt[c] = "ok"

\* C25 as stated: a call whose failure has been reported to the caller of
\* execute was issued more than once: the request was issued again, at most
\* RETRY_ATTEMPTS times, before the failure was reported.
C25_FailedCallIsRetried ==
  \A c \in CallIds :
    callSt[c] = "err" =>
      (RequestsIssued(c) > 1 /\ RequestsIssued(c) <= 1 + RETRY_ATTEMPTS)

\* C28 as stated: right after a call has settled successfully the error of
\* the controller state is null, whatever calls overlapped with it.
C28_SuccessLeavesNoError ==
  (lastOp = "settle" /\ lastRet.success) => state.error = NoError

\* C30: starting a call changes only loading (to true) and error (to null); a
\* failing call changes only error and loading; data changes only when a
\* call settles successfully or reset is called, so the data of the last
\* successful call stays through later starts and failures.
C30_DataChangesOnlyOnSuccess ==
  [][ /\ lastOp' = "execute" =>
           state' = [state EXCEPT !.loading = TRUE, !.error = NoError]
      /\ (lastOp' = "settle" /\ ~lastRet'.success) =>
           state' = [state EXCEPT !.loading = FALSE, !.error = lastRet'.error]
      /\ state'.data # state.data =>
           (lastOp' = "reset" \/ (lastOp' = "settle" /\ lastRet'.success)) ]_vars

\* A call has failed after an earlier one succeeded: the data of the earlier
\* call is still there, next to the error.
C30_Witness ==
  /\ lastOp = "settle"
  /\ ~lastRet.success
  /\ ~anyReset
  /\ state.data # Null
  /\ state.error = lastRet.error
  /\ state.error # NoError

(***************************************************************************)
(* The strategy-testing page's claims (SpecApp).                           *)
(***************************************************************************)
Entry(s) == IF s = "wheel" THEN results.results.wheel ELSE results.results.rotator
Section(v, s) == IF s = "wheel" THEN v.wheel ELSE v.rotator
Label(s) == IF s = "wheel" THEN "Options Wheel" ELSE "Crypto Rotator"
Other(s) == IF s = "wheel" THEN "rotator" ELSE "wheel"

IsErrorEntry(e) == e # Absent /\ Truthy(e.error)
IsSuccessEntry(e) == e # Absent /\ ~Truthy(e.error) /\ e.has = {"trades", "summary"}

RunJustFailed == lastOp = "settle" /\ ~lastRet.success
RunJustSucceeded == lastOp = "settle" /\ lastRet.success

\* A payload of successful entries only (at least one), none with a trade.
ZeroTrades(p) ==
  /\ p # Null
  /\ \E s \in StrategyIds : p.results[s] # Absent
  /\ \A s \in StrategyIds :
       p.results[s] # Absent => IsSuccessEntry(p.results[s]) /\ p.results[s].trades = <<>>

\* C8: after a run has failed at top level the status is 'Failed' and results
\* is null, also when an earlier run had succeeded, so the results panel shows
\* no strategy section, table or chart; a successful run without trades shows
\* the results view with empty trade tables, and is 'Completed'.
C8_FailedRunShowsNoResults ==
  /\ RunJustFailed =>
       /\ status = "Failed"
       /\ results = Null
       /\ View = [kind |-> "ready"]
  /\ (RunJustSucceeded /\ ZeroTrades(results)) =>
       /\ status = "Completed"
       /\ View.kind = "results"
       /\ \A s \in StrategyIds :
            Entry(s) # Absent => Section(View, s).table = [kind |-> "empty"]

C8_Witness ==
  /\ RunJustFailed
  /\ \E c \in CallIds : callSt[c] = "ok"
  /\ View = [kind |-> "ready"]

\* The payload on the screen without the entry of strategy s.
Without(s) == [results EXCEPT !.results[s] = Absent]

\* C9 as stated: an entry with an error is shown as its error text only: no
\* trade table, no comparison row and no distribution count come from it.
C9_ErrorEntryIsErrorViewOnly ==
  (results # Null /\ ~state.loading) =>
    \A s \in StrategyIds :
      IsErrorEntry(Entry(s)) =>
        /\ View.kind = "results"
        /\ Section(View, s).summary = [kind |-> "error", text |-> Entry(s).error]
        /\ Section(View, s).table = NotRendered
        /\ \A i \in 1..Len(View.chart.comparisonData) :
             View.chart.comparisonData[i].strategy # Label(s)
        /\ View.chart.actionChartData =
             ActionChartData(Without(s).results.wheel, Without(s).results.rotator)

\* Both strategies were requested; the entry of s is a success, the other
\* entry an error.
OneFailedOtherSucceeded(s) ==
  /\ results # Null
  /\ ~state.loading
  /\ Len(requested) = 2
  /\ IsSuccessEntry(Entry(s))
  /\ IsErrorEntry(Entry(Other(s)))

\* C10 as stated: with one entry an error and the other a success, the
\* successful strategy's summary and trade table are what they are when it is
\* run alone, the comparison data has exactly its row and the distribution
\* counts its trades only.
C10_SuccessfulStrategyUnaffected ==
  \A s \in StrategyIds :
    OneFailedOtherSucceeded(s) =>
      LET alone == ResultsPanel(Without(Other(s)), FALSE) IN
        /\ View.kind = "results"
        /\ Section(View, s) = Section(alone, s)
        /\ Section(View, s).summary.kind = "metrics"
        /\ Section(View, s).table.kind \in {"rows", "empty"}
        /\ Len(View.chart.comparisonData) = 1
        /\ View.chart.comparisonData[1].strategy = Label(s)
        /\ View.chart.comparisonData = alone.chart.comparisonData
        /\ View.chart.actionChartData = alone.chart.actionChartData

\* The payload of the last run is on the screen.
Displayed == results # Null /\ ~state.loading

IsRequested(s) == \E i \in 1..Len(requested) : requested[i] = s

\* The comparison rows of strategy s in view v.
RowsOf(v, s) ==
  { i \in 1..Len(v.chart.comparisonData) : v.chart.comparisonData[i].strategy = Label(s) }

\* C11 as stated: a requested strategy without an entry in the payload's
\* results is shown as an error view with the message "no result returned",
\* so every requested strategy has exactly one view.
C11_MissingEntryGetsErrorView ==
  Displayed =>
    \A s \in StrategyIds :
      (IsRequested(s) /\ Entry(s) = Absent) =>
        /\ View.kind = "results"
        /\ Section(View, s).summary = [kind |-> "error", text |-> "no result returned"]
        /\ Section(View, s).table = NotRendered

\* An entry without error whose summary lacks a capital.
MalformedSummary(e) ==
  /\ e # Absent
  /\ ~Truthy(e.error)
  /\ "summary" \in e.has
  /\ ~({"initial_capital", "final_capital"} \subseteq DOMAIN e.summary)

\* C12 as stated: an entry without error whose summary lacks initial_capital
\* or final_capital is shown as an error view with the message "malformed
\* summary", and no comparison row is made from it.
C12_MalformedSummaryIsErrorView ==
  Displayed =>
    \A s \in StrategyIds :
      MalformedSummary(Entry(s)) =>
        /\ View.kind = "results"
        /\ Section(View, s).summary = [kind |-> "error", text |-> "malformed summary"]
        /\ RowsOf(View, s) = {}

\* (final_capital - initial_capital) / initial_capital * 100, and 0 for no
\* initial capital.
ExpectedReturnPct(summary) ==
  IF summary.initial_capital > 0
    THEN [t |-> "num", n |-> (summary.final_capital - summary.initial_capital) * 100,
          d |-> summary.initial_capital]
    ELSE Num(0)

\* C13 as stated: for a successful entry the return percent of the summary
\* card and the return percent of its comparison row are both
\* (final - initial) / initial * 100 for a positive initial capital and 0 for
\* initial capital 0: never NaN, never an infinity.
C13_ReturnPercentNeverDividesByZero ==
  View.kind = "results" =>
    \A s \in StrategyIds :
      (IsSuccessEntry(Entry(s)) /\ ~MalformedSummary(Entry(s)) /\ Entry(s).summary.initial_capital >= 0) =>
        /\ NumEq(Section(View, s).summary.returnPercentage, ExpectedReturnPct(Entry(s).summary))
        /\ RowsOf(View, s) # {}
        /\ \A i \in RowsOf(View, s) :
             NumEq(View.chart.comparisonData[i].returnPct, ExpectedReturnPct(Entry(s).summary))

\* The requested strategies whose entry on the screen is a success.
SuccessfulViews ==
  { s \in StrategyIds :
      IsRequested(s) /\ IsSuccessEntry(Entry(s)) /\ ~MalformedSummary(Entry(s)) }

TradesOfView(s) == IF s \in SuccessfulViews THEN Entry(s).summary.total_trades ELSE 0

SuccessfulEntries == { s \in StrategyIds : IsSuccessEntry(Entry(s)) }

RECURSIVE Reverse(_)
Reverse(seq) == IF seq = <<>> THEN <<>> ELSE Reverse(Tail(seq)) \o << Head(seq) >>

\* The entry with its trades in the opposite order.
Reversed(e) == IF e = Absent THEN e ELSE [e EXCEPT !.trades = Reverse(@)]

\* C22 as stated: the entries of the action distribution are in descending
\* order of count, and the same trades in another order, or listed under the
\* strategies in the other order, give the same sequence of entries.
C22_DistributionOrderIndependent ==
  View.kind = "results" =>
    /\ \A i \in 1..(Len(View.chart.actionChartData) - 1) :
         View.chart.actionChartData[i].count >= View.chart.actionChartData[i + 1].count
    /\ ActionChartData(Reversed(Entry("wheel")), Reversed(Entry("rotator")))
         = View.chart.actionChartData
    /\ ActionChartData(Entry("rotator"), Entry("wheel")) = View.chart.actionChartData

\* The action labels of the trades the distribution counts, the wheel's
\* before the rotator's.
CountedLabels ==
  LET labels(e) == IF Usable(e) THEN [i \in 1..Len(e.trades) |-> ReplaceFirst(e.trades[i].action)]
                   ELSE <<>>
  IN labels(Entry("wheel")) \o labels(Entry("rotator"))

FirstIndex(label) ==
  CHOOSE k \in 1..Len(CountedLabels) :
    CountedLabels[k] = label /\ \A m \in 1..(k - 1) : CountedLabels[m] # label

SetOf(seq) == { seq[i] : i \in 1..Len(seq) }

\* C22: the action distribution is a function of the payload, with one entry
\* for every action label of the counted trades, in the order in which the
\* labels first occur when the wheel's trades are read before the rotator's;
\* the same trades in the opposite order give the same entries, though not
\* always in the same sequence.
C22_DistributionInFirstOccurrenceOrder ==
  View.kind = "results" =>
    LET data == View.chart.actionChartData IN
      /\ { data[i].action : i \in 1..Len(data) } = SetOf(CountedLabels)
      /\ \A i, j \in 1..Len(data) :
           i < j => FirstIndex(data[i].action) < FirstIndex(data[j].action)
      /\ SetOf(ActionChartData(Reversed(Entry("wheel")), Reversed(Entry("rotator")))) = SetOf(data)
      /\ SetOf(ActionChartData(Entry("rotator"), Entry("wheel"))) = SetOf(data)

\* A distribution that is not in descending order of count, and that the
\* same trades in the opposite order give in another sequence.
C22_Witness ==
  /\ View.kind = "results"
  /\ \E i \in 1..(Len(View.chart.actionChartData) - 1) :
       View.chart.actionChartData[i].count < View.chart.actionChartData[i + 1].count
  /\ ActionChartData(Reversed(Entry("wheel")), Reversed(Entry("rotator")))
       # View.chart.actionChartData

\* The trades of the successful entries on the screen, taken together.
CountedTrades ==
  (IF Usable(Entry("wheel")) THEN Entry("wheel").trades ELSE <<>>)
  \o (IF Usable(Entry("rotator")) THEN Entry("rotator").trades ELSE <<>>)

RECURSIVE SumOfCounts(_)
SumOfCounts(data) == IF data = <<>> THEN 0 ELSE Head(data).count + SumOfCounts(Tail(data))

\* C26: for every action of a trade of a successful entry the distribution
\* has one entry, whose count is the number of trades with that action over
\* the successful entries together; every entry of the distribution is the
\* entry of such an action and has a count above 0, and the counts add up to
\* the number of those trades.
C26_DistributionCountsExact ==
  View.kind = "results" =>
    LET data == View.chart.actionChartData IN
      /\ \A k \in 1..Len(CountedTrades) :
           \E i \in 1..Len(data) :
             /\ data[i].action = ReplaceFirst(CountedTrades[k].action)
             /\ data[i].count =
                  Cardinality({ m \in 1..Len(CountedTrades) :
                                  CountedTrades[m].action = CountedTrades[k].action })
             /\ \A j \in 1..Len(data) : data[j].action = data[i].action => j = i
      /\ \A i \in 1..Len(data) :
           /\ data[i].count > 0
           /\ \E k \in 1..Len(CountedTrades) : data[i].action = ReplaceFirst(CountedTrades[k].action)
      /\ SumOfCounts(data) = Len(CountedTrades)

\* One entry has an error and trades, the other is a success with an action
\* that occurs twice: the distribution counts the successful entry's trades
\* only.
C26_Witness ==
  /\ View.kind = "results"
  /\ \E s \in StrategyIds :
       /\ IsErrorEntry(Entry(s))
       /\ Entry(s).trades # <<>>
       /\ Other(s) \in SuccessfulEntries
       /\ SumOfCounts(View.chart.actionChartData) = Len(Entry(Other(s)).trades)
  /\ \E i \in 1..Len(View.chart.actionChartData) : View.chart.actionChartData[i].count = 2

\* The text in small letters.
ToLower(text) ==
  [i \in 1..Len(text) |-> IF text[i] \in 65..90 THEN text[i] + 32 ELSE text[i]]

\* The rendering class the claim gives to a summary key and its value.
ClaimedClass(key, value) ==
  IF value.type = "number"
    THEN IF \E sub \in {StrRate, StrPercentage, StrRatio} : Includes(ToLower(KeyChars[key]), sub)
           THEN "percentage" ELSE "number"
    ELSE "string"

\* The entry of s is shown as metric cards.
ShownAsMetrics(s) ==
  /\ View.kind = "results"
  /\ Entry(s) # Absent
  /\ Section(View, s).summary.kind = "metrics"

\* C23 as stated: every box of the Additional Metrics section shows its value
\* unchanged, percentage-style when the value is a number and the key
\* contains "rate", "percentage" or "ratio" in any letter case, as a plain
\* number when it is a number otherwise, in string form when it is no number.
C23_AdditionalMetricClass ==
  \A s \in StrategyIds :
    ShownAsMetrics(s) =>
      \A box \in Section(View, s).summary.additional.boxes :
        /\ box.value = Entry(s).summary[box.key].v
        /\ box.class = ClaimedClass(box.key, Entry(s).summary[box.key])

\* The four scalar fields the claim calls required.
RequiredFields == {"total_trades", "initial_capital", "final_capital", "execution_time"}

\* C24 as stated: every key of a successful entry's summary other than the
\* four required fields has a box in the Additional Metrics section, also
\* when the summary has the four required fields and one key more.
C24_NoExtraKeyDropped ==
  \A s \in StrategyIds :
    ShownAsMetrics(s) =>
      \A key \in (DOMAIN Entry(s).summary) \ RequiredFields :
        /\ Section(View, s).summary.additional.shown
        /\ \E box \in Section(View, s).summary.additional.boxes : box.key = key

\* C27: through the page at most one runStrategies call is in flight: while
\* a call has started and not settled the Run button is disabled, so a run
\* starts only when every earlier one has settled.
C27_OneRunInFlight ==
  /\ Cardinality(Pending) <= 1
  /\ Pending # {} => (state.loading /\ ~RunEnabled)
  /\ \A c \in CallIds : pendingAtStart[c] = {}

\* A second run is in flight after the first has settled; the button is
\* disabled though strategies are selected.
C27_Witness ==
  /\ mounted
  /\ Len(selectedStrategies) # 0
  /\ ~RunEnabled
  /\ \E c, d \in CallIds : c < d /\ callSt[c] \in {"ok", "err"} /\ Pending = {d}

\* C29 as stated: the status is 'Failed' only with an error in the
\* controller, it is 'Completed' exactly when results is set, and a run that
\* has resolved is never reported as 'Failed'.
C29_StatusAgreesWithController ==
  /\ status = "Failed" => state.error # NoError
  /\ status = "Completed" <=> results # Null
  /\ RunJustSucceeded => status # "Failed"

(***************************************************************************)
(* The trade ledger's claims (SpecLedger).                                 *)
(***************************************************************************)
\* How often record t occurs in list.
Occurrences(list, t) == Cardinality({ i \in 1..Len(list) : list[i] = t })

IsPermutation(a, b) ==
  /\ Len(a) = Len(b)
  /\ \A t \in TradePool : Occurrences(a, t) = Occurrences(b, t)

\* C15: computing the sorted view leaves the array of the trades prop as it
\* was handed over, same elements in the same order, whatever field and
\* direction are active; the sorted view is a permutation of it.
C15_SortLeavesInputUntouched ==
  /\ tradesProp = propAtMount
  /\ IsPermutation(sortedTrades, propAtMount)

\* A header was clicked and the sorted view of three trades is in another
\* order than the prop.
C15_Witness ==
  /\ lastEvent \in HeaderFields
  /\ Len(propAtMount) = 3
  /\ sortedTrades # propAtMount
  /\ tradesProp = propAtMount

\* The value of the sort field of a trade: the instant for a timestamp.
KeyOf(t, field) == IF field = "timestamp" THEN GetTime(t.timestamp) ELSE t[field]

\* The trades of list whose sort field has the value it has in t, in order.
SameKey(list, t, field) == SelectSeq(list, LAMBDA u : KeyOf(u, field) = KeyOf(t, field))

\* C16: for every field and both directions, the trades whose values of the
\* active sort field are equal are in the sorted view in the order they have
\* in the trades prop.
C16_SortIsStable ==
  \A i \in 1..Len(propAtMount) :
    SameKey(sortedTrades, propAtMount[i], sortField)
      = SameKey(propAtMount, propAtMount[i], sortField)

\* Descending order after a click, two different trades with the same value
\* of the sort field and a third with another value.
C16_Witness ==
  /\ lastEvent \in HeaderFields
  /\ sortDirection = "desc"
  /\ \E i, j, k \in 1..Len(propAtMount) :
       /\ i < j
       /\ propAtMount[i] # propAtMount[j]
       /\ KeyOf(propAtMount[i], sortField) = KeyOf(propAtMount[j], sortField)
       /\ KeyOf(propAtMount[k], sortField) # KeyOf(propAtMount[i], sortField)
  /\ sortedTrades # propAtMount

\* The label is a numeral.
IsNumeral(label) == label # <<>> /\ \A i \in 1..Len(label) : label[i] \in 48..57

RECURSIVE NumeralValue(_)
NumeralValue(label) ==
  IF label = <<>> THEN 0
  ELSE 10 * NumeralValue(SubSeq(label, 1, Len(label) - 1)) + (label[Len(label)] - 48)

\* The comparison the claim gives for each field: negative, zero or positive.
ClaimedCompare(a, b, field) ==
  IF field \in {"symbol", "action"} THEN LocaleCompare(a[field], b[field])
  ELSE IF field \in {"quantity", "price", "cash_flow"} THEN a[field] - b[field]
  ELSE IF field = "timestamp" THEN GetTime(a.timestamp) - GetTime(b.timestamp)
  ELSE IF IsNumeral(a.week) /\ IsNumeral(b.week)
    THEN NumeralValue(a.week) - NumeralValue(b.week)
    ELSE LocaleCompare(a.week, b.week)

\* C17 as stated: every adjacent pair of the sorted view is non-decreasing
\* (ascending) or non-increasing (descending) under the comparison of the
\* active field: strings for symbol and action, numbers for quantity, price
\* and cash_flow, instants for timestamp, and for week numbers when both
\* labels are numerals, labels otherwise.
C17_OrderedByFieldComparison ==
  \A i \in 1..(Len(sortedTrades) - 1) :
    IF sortDirection = "asc"
      THEN ClaimedCompare(sortedTrades[i], sortedTrades[i + 1], sortField) <= 0
      ELSE ClaimedCompare(sortedTrades[i], sortedTrades[i + 1], sortField) >= 0

Flip(direction) == IF direction = "asc" THEN "desc" ELSE "asc"

\* C18: the sort specification starts as (timestamp, desc); a click on a
\* field other than the active one makes it the active field, ascending; a
\* click on the active field keeps the field and flips the direction; after
\* two clicks in a row on the active field the specification and the rows
\* are what they were before the two.
C18_HeaderClicks ==
  /\ lastEvent = "none" => (sortField = "timestamp" /\ sortDirection = "desc")
  /\ lastEvent \in HeaderFields =>
       IF lastEvent # before.field
         THEN sortField = lastEvent /\ sortDirection = "asc"
         ELSE sortField = before.field /\ sortDirection = Flip(before.direction)
  /\ (lastEvent \in HeaderFields /\ prevEvent = lastEvent /\ beforePrev.field = lastEvent) =>
       /\ sortField = beforePrev.field
       /\ sortDirection = beforePrev.direction
       /\ sortedTrades = beforePrev.rows

\* Two clicks in a row on the active field, the rows in between in another
\* order.
C18_Witness ==
  /\ lastEvent \in HeaderFields
  /\ prevEvent = lastEvent
  /\ beforePrev.field = lastEvent
  /\ before.rows # sortedTrades
  /\ sortedTrades = beforePrev.rows

\* C19: a click on the collapse button changes isCollapsed and nothing else:
\* sort field, sort direction and the trades prop are what they were, and so
\* is the order of the rows; after a collapse and an expand the rows on the
\* screen are the rows that were there before.
C19_CollapseKeepsSort ==
  /\ lastEvent = "collapse" =>
       /\ isCollapsed = ~before.collapsed
       /\ sortField = before.field
       /\ sortDirection = before.direction
       /\ tradesProp = propAtMount
       /\ sortedTrades = before.rows
  /\ (lastEvent = "collapse" /\ prevEvent = "collapse" /\ ~isCollapsed) =>
       RenderedRows = beforePrev.rows

\* Collapsed and expanded again under a sort that a click had chosen, the
\* rows in another order than the prop.
C19_Witness ==
  /\ lastEvent = "collapse"
  /\ prevEvent = "collapse"
  /\ ~isCollapsed
  /\ sortField # "timestamp"
  /\ RenderedRows # propAtMount
  /\ RenderedRows = beforePrev.rows

====
